---- MODULE Spec2Model ----
(***************************************************************************)
(* Sort-based shuffle repartitioner (SortShuffleRepartitioner).            *)
(*                                                                         *)
(* Concurrent tasks call insert_batch, spill (on behalf of the memory      *)
(* arbiter) and shuffle_write on one repartitioner.  Each action below is  *)
(* the code between two suspension points (.await) of one of these calls.  *)
(*                                                                         *)
(* A row is represented by the u32 hash of its partitioning columns; a     *)
(* record batch is the sequence of its rows.  Vectors are indexed from 0   *)
(* in the code and are read here through Get.                              *)
(***************************************************************************)
EXTENDS Integers, Sequences, FiniteSets, Bags, TLC

\* ------------------------------------------------------------- bounds
\* hashes of the rows of the input are drawn from 0 .. MaxHash
MaxHash == 3
\* total number of rows the upstream inserts over all insert_batch calls
MaxTotalRows == 3

\* ------------------------------------------------- program configuration
\* partitioning.partition_count()
num_output_partitions == 3
\* context.session_config().batch_size()
batch_size == 2
\* reserved memory for each spill during the merge
SPILL_OFFHEAP_MEM_COST == 70000
\* std::mem::size_of::<PI>(): four u32 fields
SIZEOF_PI == 16
\* width in bytes of one index entry (i64::to_le_bytes)
I64_BYTES == 8
\* bytes of one row of the single u32 column (get_array_memory_size)
ROW_MEM == 4

\* ------------------------------------------------------------- tasks
Inserters == {"ins1", "ins2"}
Spillers == {"arb1"}
Writer == "writer"
Tasks == Inserters \cup Spillers \cup {Writer}
NoOwner == "none"

Hashes == 0 .. MaxHash

\* ------------------------------------------------------------ helpers
Get(v, i) == v[i + 1]
Min(a, b) == IF a < b THEN a ELSE b

\* Vec::resize(new_len, value)
Resize(v, new_len, value) ==
    IF Len(v) >= new_len THEN SubSeq(v, 1, new_len)
    ELSE v \o [i \in 1 .. (new_len - Len(v)) |-> value]

\* ---------------------------------------------------------- batch codec
\* write_one_batch(batch, sink, true): a self-describing byte run, a header
\* carrying the row count (written as -n) followed by the n rows.
write_one_batch(batch) == <<0 - Len(batch)>> \o batch

\* the matching reader: the sub-batches of a byte run, in order; the rest of a
\* run that is not a whole sub-batch is returned as one sequence marked by <<-1>>
\* so that a torn run never decodes to the rows of a well-formed one.
RECURSIVE read_batches(_)
read_batches(bytes) ==
    IF bytes = <<>> THEN <<>>
    ELSE LET n == 0 - Head(bytes)
         IN IF n >= 1 /\ Len(bytes) >= n + 1
                /\ \A k \in 2 .. n + 1 : bytes[k] >= 0
            THEN <<SubSeq(bytes, 2, n + 1)>>
                     \o read_batches(SubSeq(bytes, n + 2, Len(bytes)))
            ELSE <<<<-1>>>>

RECURSIVE Flatten(_)
Flatten(ss) == IF ss = <<>> THEN <<>> ELSE Head(ss) \o Flatten(Tail(ss))

\* the rows decoded from a byte run
read_rows(bytes) == Flatten(read_batches(bytes))

RECURSIVE SeqToBag(_)
SeqToBag(s) ==
    IF s = <<>> THEN EmptyBag ELSE SetToBag({Head(s)}) (+) SeqToBag(Tail(s))

\* ------------------------------------------------- partition-hash function
\* evaluate_hashes: one hash per row
evaluate_hashes(batch) == [i \in 1 .. Len(batch) |-> batch[i]]
\* evaluate_partition_ids: hash mod P
evaluate_partition_ids(hashes, P) == [i \in 1 .. Len(hashes) |-> hashes[i] % P]

\* --------------------------------------------------------- PI and its sort
\* the PI records of one batch (lines 98-111)
PIOfBatch(batch, batch_idx) ==
    LET hashes == evaluate_hashes(batch)
        partition_ids == evaluate_partition_ids(hashes, num_output_partitions)
    IN [i \in 1 .. Len(batch) |->
            [partition_id |-> partition_ids[i], hash |-> hashes[i],
             batch_idx |-> batch_idx, row_idx |-> i - 1]]

RECURSIVE PIVec(_, _)
PIVec(buffered, batch_idx) ==
    IF batch_idx >= Len(buffered) THEN <<>>
    ELSE PIOfBatch(Get(buffered, batch_idx), batch_idx)
             \o PIVec(buffered, batch_idx + 1)

\* derived Ord of PI: lexicographic on (partition_id, hash), the rest ignored
PILess(a, b) ==
    \/ a.partition_id < b.partition_id
    \/ a.partition_id = b.partition_id /\ a.hash < b.hash

RECURSIVE InsertPI(_, _)
InsertPI(sorted, x) ==
    IF sorted = <<>> THEN <<x>>
    ELSE IF PILess(x, Head(sorted)) THEN <<x>> \o sorted
    ELSE <<Head(sorted)>> \o InsertPI(Tail(sorted), x)

\* pi_vec.sort_unstable(): records with equal keys stand for equal rows, so
\* every order the sort may leave them in gives the same spill
RECURSIVE SortPI(_)
SortPI(v) ==
    IF v = <<>> THEN <<>>
    ELSE InsertPI(SortPI(SubSeq(v, 1, Len(v) - 1)), v[Len(v)])

\* compute::interleave over the buffered columns
interleave(buffered, sub_pi_vec) ==
    [k \in 1 .. Len(sub_pi_vec) |->
        Get(Get(buffered, sub_pi_vec[k].batch_idx), sub_pi_vec[k].row_idx)]

\* ---------------------------------------------------------- spill builder
\* write_sub_batch!(from..to)
write_sub_batch(st, pi_vec, buffered, from, to) ==
    LET buf == write_one_batch(
                   interleave(buffered, SubSeq(pi_vec, from + 1, to)))
    IN [st EXCEPT !.offset = st.offset + Len(buf), !.data = st.data \o buf]

\* faulty variant of PushOffsets: an if where the code has a while
PushOffsets_Once(st, partition_id) ==
    IF partition_id > st.cur_partition_id
    THEN [st EXCEPT !.cur_spill_offsets = Append(@, st.offset),
                    !.cur_partition_id = @ + 1]
    ELSE st

\* while pi_vec[cur_offset].partition_id > cur_partition_id { push; += 1 }
RECURSIVE PushOffsets(_, _)
PushOffsets(st, partition_id) ==
    IF partition_id > st.cur_partition_id
    THEN PushOffsets(
             [st EXCEPT !.cur_spill_offsets = Append(@, st.offset),
                        !.cur_partition_id = @ + 1],
             partition_id)
    ELSE st

\* faulty variant of SpillLoopBody: the window closed one row late
SpillLoopBody_Late(st, pi_vec, buffered, cur_offset) ==
    IF \/ Get(pi_vec, cur_offset).partition_id > st.cur_partition_id
       \/ cur_offset - st.cur_slice_start > batch_size
    THEN LET st1 == IF st.cur_slice_start < cur_offset
                    THEN [write_sub_batch(st, pi_vec, buffered,
                                          st.cur_slice_start, cur_offset)
                             EXCEPT !.cur_slice_start = cur_offset]
                    ELSE st
         IN PushOffsets(st1, Get(pi_vec, cur_offset).partition_id)
    ELSE st

\* faulty variant of SpillLoopBody: the partition boundaries are recorded before the
\* window that ends at them is written
SpillLoopBody_PushFirst(st, pi_vec, buffered, cur_offset) ==
    IF \/ Get(pi_vec, cur_offset).partition_id > st.cur_partition_id
       \/ cur_offset - st.cur_slice_start >= batch_size
    THEN LET st1 == PushOffsets(st, Get(pi_vec, cur_offset).partition_id)
         IN IF st.cur_slice_start < cur_offset
            THEN [write_sub_batch(st1, pi_vec, buffered,
                                  st.cur_slice_start, cur_offset)
                     EXCEPT !.cur_slice_start = cur_offset]
            ELSE st1
    ELSE st

\* one iteration of the loop over 0..pi_vec.len() (lines 153-166)
SpillLoopBody(st, pi_vec, buffered, cur_offset) ==
    IF \/ Get(pi_vec, cur_offset).partition_id > st.cur_partition_id
       \/ cur_offset - st.cur_slice_start >= batch_size
    THEN LET st1 == IF st.cur_slice_start < cur_offset
                    THEN [write_sub_batch(st, pi_vec, buffered,
                                          st.cur_slice_start, cur_offset)
                             EXCEPT !.cur_slice_start = cur_offset]
                    ELSE st
         IN PushOffsets(st1, Get(pi_vec, cur_offset).partition_id)
    ELSE st

RECURSIVE SpillLoop(_, _, _, _)
SpillLoop(st, pi_vec, buffered, cur_offset) ==
    IF cur_offset >= Len(pi_vec) THEN st
    ELSE SpillLoop(SpillLoopBody(st, pi_vec, buffered, cur_offset),
                   pi_vec, buffered, cur_offset + 1)

\* faulty variant of spill_buffered_batches: the window left open when the loop ends
\* is not written
spill_buffered_batches_NoTail(buffered) ==
    IF buffered = <<>> THEN <<>>
    ELSE LET pi_vec == SortPI(PIVec(buffered, 0))
             st0 == [cur_partition_id |-> 0, cur_slice_start |-> 0,
                     cur_spill_offsets |-> <<0>>, offset |-> 0, data |-> <<>>]
             st1 == SpillLoop(st0, pi_vec, buffered, 0)
         IN <<[spill |-> st1.data,
               offsets |-> Resize(st1.cur_spill_offsets,
                                  num_output_partitions + 1, st1.offset)]>>

\* spill_buffered_batches: <<>> for None, <<spill>> for Some(spill)
spill_buffered_batches(buffered) ==
    IF buffered = <<>> THEN <<>>
    ELSE LET pi_vec == SortPI(PIVec(buffered, 0))
             st0 == [cur_partition_id |-> 0, cur_slice_start |-> 0,
                     cur_spill_offsets |-> <<0>>, offset |-> 0, data |-> <<>>]
             st1 == SpillLoop(st0, pi_vec, buffered, 0)
             st2 == IF st1.cur_slice_start < Len(pi_vec)
                    THEN write_sub_batch(st1, pi_vec, buffered,
                                         st1.cur_slice_start, Len(pi_vec))
                    ELSE st1
         IN <<[spill |-> st2.data,
               offsets |-> Resize(st2.cur_spill_offsets,
                                  num_output_partitions + 1, st2.offset)]>>

\* ------------------------------------------------------------ SpillCursor
\* SpillCursor::finished
finished(c) == c.cur + 1 >= Len(c.offsets)

\* SpillCursor::skip_empty_partitions
RECURSIVE skip_empty_partitions(_)
skip_empty_partitions(c) ==
    IF ~finished(c) /\ Get(c.offsets, c.cur + 1) = Get(c.offsets, c.cur)
    THEN skip_empty_partitions([c EXCEPT !.cur = @ + 1])
    ELSE c

\* the cursor made from one spill (lines 276-284); pos is the number of bytes
\* the cursor's sequential reader has consumed
NewCursor(spill) ==
    skip_empty_partitions(
        [cur |-> 0, pos |-> 0, data |-> spill.spill, offsets |-> spill.offsets])

\* faulty variant of CursorLt: live cursors compared the wrong way round
CursorLt_Reversed(c1, c2) ==
    IF finished(c1) THEN FALSE
    ELSE IF finished(c2) THEN TRUE
    ELSE c1.cur > c2.cur

\* faulty variant of CursorLt: the two finished arms exchanged
CursorLt_FinishedFirst(c1, c2) ==
    IF finished(c1) THEN TRUE
    ELSE IF finished(c2) THEN FALSE
    ELSE c1.cur < c2.cur

\* the comparator given to LoserTree::new_by (lines 287-291)
CursorLt(c1, c2) ==
    IF finished(c1) THEN FALSE
    ELSE IF finished(c2) THEN TRUE
    ELSE c1.cur < c2.cur

\* LoserTree::peek_mut: a cursor no other cursor is less than; which of several
\* equal cursors the tree holds at its root is left open
Winners(cs) ==
    {i \in 1 .. Len(cs) : \A j \in 1 .. Len(cs) : ~CursorLt(cs[j], cs[i])}

\* ------------------------------------------------------------ index file
\* i64::to_le_bytes of a non-negative offset, n bytes
RECURSIVE to_le_bytes(_, _)
to_le_bytes(x, n) ==
    IF n = 0 THEN <<>> ELSE <<x % 256>> \o to_le_bytes(x \div 256, n - 1)

RECURSIVE from_le_bytes(_)
from_le_bytes(bytes) ==
    IF bytes = <<>> THEN 0
    ELSE Head(bytes) + 256 * from_le_bytes(Tail(bytes))

RECURSIVE WriteIndex(_)
WriteIndex(offs) ==
    IF offs = <<>> THEN <<>>
    ELSE to_le_bytes(Head(offs), I64_BYTES) \o WriteIndex(Tail(offs))

\* ------------------------------------------------------------------ state
VARIABLES
    pc,                 \* where each task is in its call
    input,              \* insert_batch's argument, per inserter
    buffered_batches,   \* self.buffered_batches
    spills,             \* self.spills
    batches_lock,       \* owner of the buffered_batches mutex
    spills_lock,        \* owner of the spills mutex
    spillable,          \* what set_spillable last told the arbiter
    mem_used,           \* memory usage last reported to the arbiter
    w_spills,           \* shuffle_write's local spills
    cursors,            \* shuffle_write's loser tree of cursors
    cur_partition_id,   \* shuffle_write's output partition counter
    offsets,            \* shuffle_write's local offsets
    output_data,        \* the data file, None before it is opened
    output_index,       \* the index file, None before it is created
    inserted,           \* history: the rows given to insert_batch so far
    spill_in_flight,    \* history: a spill() was in progress at shuffle_write's entry
    task,               \* output_with_sender: where the spawned task is
    result,             \* output_with_sender: what catch_unwind returned
    channel,            \* output_with_sender: the frames in the channel
    receiver,           \* output_with_sender: the state of the receiving stream
    received,           \* history: the frames the receiver has observed
    worker_sent,        \* history: the frames the worker future has sent
    err_sends           \* history: the outcomes of the task's own sends

repartitioner_vars ==
    <<pc, input, buffered_batches, spills, batches_lock, spills_lock,
      spillable, mem_used, w_spills, cursors, cur_partition_id, offsets,
      output_data, output_index, inserted, spill_in_flight>>

sender_vars ==
    <<task, result, channel, receiver, received, worker_sent, err_sends>>

vars == <<repartitioner_vars, sender_vars>>

\* what catch_unwind has to return while the worker future runs
NoPayload == [kind |-> "none", text |-> ""]
Pending == [tag |-> "Pending", value |-> "", payload |-> NoPayload]

None == <<-1>>

\* SortShuffleRepartitioner::new, registered with the arbiter; the channel and
\* the task of output_with_sender as lines 73-74 create them
Init ==
    /\ pc = [t \in Tasks |-> "idle"]
    /\ input = [t \in Inserters |-> <<>>]
    /\ buffered_batches = <<>>
    /\ spills = <<>>
    /\ batches_lock = NoOwner
    /\ spills_lock = NoOwner
    /\ spillable = TRUE
    /\ mem_used = 0
    /\ w_spills = <<>>
    /\ cursors = <<>>
    /\ cur_partition_id = 0
    /\ offsets = <<>>
    /\ output_data = None
    /\ output_index = None
    /\ inserted = EmptyBag
    /\ spill_in_flight = FALSE
    /\ task = "output"
    /\ result = Pending
    /\ channel = <<>>
    /\ receiver = "open"
    /\ received = <<>>
    /\ worker_sent = <<>>
    /\ err_sends = <<>>

shared == <<buffered_batches, spills, batches_lock, spills_lock>>
writer_locals == <<w_spills, cursors, cur_partition_id, offsets, output_data,
                   output_index>>

\* ----------------------------------------------------------- insert_batch
\* lines 214-217: the upstream calls insert_batch(input); the memory increase
\* is reported to the arbiter
InsertBatchReport(t) ==
    /\ pc[t] = "idle"
    /\ pc[Writer] = "idle"
    /\ \E n \in 1 .. (MaxTotalRows - BagCardinality(inserted)) :
         \E b \in [1 .. n -> Hashes] :
           /\ input' = [input EXCEPT ![t] = b]
           /\ mem_used' = mem_used + (Len(b) * ROW_MEM + Len(b) * SIZEOF_PI)
           /\ inserted' = inserted (+) SeqToBag(b)
    /\ pc' = [pc EXCEPT ![t] = "push"]
    /\ UNCHANGED <<sender_vars, shared, spillable, writer_locals, spill_in_flight>>

\* faulty variant of InsertBatchPush: the buffer is replaced by the new batch
InsertBatchPush_Overwrites(t) ==
    /\ pc[t] = "push"
    /\ batches_lock = NoOwner
    /\ buffered_batches' = <<input[t]>>
    /\ input' = [input EXCEPT ![t] = <<>>]
    /\ pc' = [pc EXCEPT ![t] = "idle"]
    /\ UNCHANGED <<sender_vars, spills, batches_lock, spills_lock, spillable, mem_used,
                   writer_locals, inserted, spill_in_flight>>

\* line 218: self.buffered_batches.lock().await.push(input)
InsertBatchPush(t) ==
    /\ pc[t] = "push"
    /\ batches_lock = NoOwner
    /\ buffered_batches' = Append(buffered_batches, input[t])
    /\ input' = [input EXCEPT ![t] = <<>>]
    /\ pc' = [pc EXCEPT ![t] = "idle"]
    /\ UNCHANGED <<sender_vars, spills, batches_lock, spills_lock, spillable, mem_used,
                   writer_locals, inserted, spill_in_flight>>

\* ------------------------------------------------------------------ spill
\* the arbiter invokes spill() on the consumer while it is spillable
SpillCall(t) ==
    /\ pc[t] = "idle"
    /\ spillable
    /\ pc' = [pc EXCEPT ![t] = "lock_batches"]
    /\ UNCHANGED <<sender_vars, input, shared, spillable, mem_used, writer_locals, inserted,
                   spill_in_flight>>

\* line 195: let mut batches = self.buffered_batches.lock().await
SpillLockBatches(t) ==
    /\ pc[t] = "lock_batches"
    /\ batches_lock = NoOwner
    /\ batches_lock' = t
    /\ pc' = [pc EXCEPT ![t] = "lock_spills"]
    /\ UNCHANGED <<sender_vars, input, buffered_batches, spills, spills_lock, spillable,
                   mem_used, writer_locals, inserted, spill_in_flight>>

\* line 197: the receiver self.spills.lock().await, evaluated before the argument
SpillLockSpills(t) ==
    /\ pc[t] = "lock_spills"
    /\ spills_lock = NoOwner
    /\ spills_lock' = t
    /\ pc' = [pc EXCEPT ![t] = "build"]
    /\ UNCHANGED <<sender_vars, input, buffered_batches, spills, batches_lock, spillable,
                   mem_used, writer_locals, inserted, spill_in_flight>>

\* lines 197-199: take the buffer, build the spill, extend self.spills; the
\* guard of the spills mutex is dropped at the end of the statement
SpillBuild(t) ==
    /\ pc[t] = "build"
    /\ buffered_batches' = <<>>
    /\ spills' = spills \o spill_buffered_batches(buffered_batches)
    /\ spills_lock' = NoOwner
    /\ pc' = [pc EXCEPT ![t] = "report"]
    /\ UNCHANGED <<sender_vars, input, batches_lock, spillable, mem_used, writer_locals,
                   inserted, spill_in_flight>>

\* faulty variant of SpillReport: spill returns without reporting its usage
SpillReport_KeepsUsage(t) ==
    /\ pc[t] = "report"
    /\ batches_lock' = NoOwner
    /\ pc' = [pc EXCEPT ![t] = "idle"]
    /\ UNCHANGED <<sender_vars, input, buffered_batches, spills, spills_lock, spillable,
                   mem_used, writer_locals, inserted, spill_in_flight>>

\* lines 200-202: update_mem_used(0).await, then batches is dropped on return
SpillReport(t) ==
    /\ pc[t] = "report"
    /\ mem_used' = 0
    /\ batches_lock' = NoOwner
    /\ pc' = [pc EXCEPT ![t] = "idle"]
    /\ UNCHANGED <<sender_vars, input, buffered_batches, spills, spills_lock, spillable,
                   writer_locals, inserted, spill_in_flight>>

\* ---------------------------------------------------------- shuffle_write
\* line 223: the upstream, all its insert_batch calls returned, calls
\* shuffle_write, which first tells the arbiter to stop asking for spills
ShuffleWriteCall ==
    /\ pc[Writer] = "idle"
    /\ \A t \in Inserters : pc[t] = "idle"
    /\ spillable' = FALSE
    /\ spill_in_flight' = (\E t \in Spillers : pc[t] # "idle")
    /\ pc' = [pc EXCEPT ![Writer] = "take_spills"]
    /\ UNCHANGED <<sender_vars, input, shared, mem_used, writer_locals, inserted>>

\* faulty variant of ShuffleWriteTakeSpills: the guard of the spills mutex is
\* kept while the buffer is locked
ShuffleWriteTakeSpills_KeepsLock ==
    /\ pc[Writer] = "take_spills"
    /\ spills_lock = NoOwner
    /\ spills_lock' = Writer
    /\ w_spills' = spills
    /\ spills' = <<>>
    /\ pc' = [pc EXCEPT ![Writer] = "take_batches"]
    /\ UNCHANGED <<sender_vars, input, buffered_batches, batches_lock, spillable,
                   mem_used, cursors, cur_partition_id, offsets, output_data,
                   output_index, inserted, spill_in_flight>>

\* line 224: let mut spills = std::mem::take(&mut *self.spills.lock().await)
ShuffleWriteTakeSpills ==
    /\ pc[Writer] = "take_spills"
    /\ spills_lock = NoOwner
    /\ w_spills' = spills
    /\ spills' = <<>>
    /\ pc' = [pc EXCEPT ![Writer] = "take_batches"]
    /\ UNCHANGED <<sender_vars, input, buffered_batches, batches_lock, spills_lock, spillable,
                   mem_used, cursors, cur_partition_id, offsets, output_data,
                   output_index, inserted, spill_in_flight>>

\* lines 225-231: take the buffer under its lock, then spill what it held
ShuffleWriteTakeBatches ==
    /\ pc[Writer] = "take_batches"
    /\ batches_lock = NoOwner
    /\ w_spills' = w_spills \o spill_buffered_batches(buffered_batches)
    /\ buffered_batches' = <<>>
    /\ pc' = [pc EXCEPT ![Writer] = "reserve"]
    /\ UNCHANGED <<sender_vars, input, spills, batches_lock, spills_lock, spillable, mem_used,
                   cursors, cur_partition_id, offsets, output_data, output_index,
                   inserted, spill_in_flight>>

RECURSIVE LiveCursors(_)
LiveCursors(sp) ==
    IF sp = <<>> THEN <<>>
    ELSE LET c == NewCursor(Head(sp))
         IN (IF finished(c) THEN <<>> ELSE <<c>>) \o LiveCursors(Tail(sp))

\* lines 235-304: reserve memory for the merge, build the loser tree over the
\* cursors that are not finished, create the data file
ShuffleWriteOpen ==
    /\ pc[Writer] = "reserve"
    /\ mem_used' = Len(w_spills) * SPILL_OFFHEAP_MEM_COST
    /\ cursors' = LiveCursors(w_spills)
    /\ offsets' = <<0>>
    /\ output_data' = <<>>
    /\ cur_partition_id' = 0
    /\ pc' = [pc EXCEPT ![Writer] =
                 IF Len(cursors') > 0 THEN "merge" ELSE "flush"]
    /\ UNCHANGED <<sender_vars, input, shared, spillable, w_spills, output_index, inserted,
                   spill_in_flight>>

\* faulty variant of AdvanceOutput: an if where the code has a while
AdvanceOutput_Once(offs, pid, cur, position) ==
    IF pid < cur THEN [offsets |-> Append(offs, position), cur_partition_id |-> pid + 1]
    ELSE [offsets |-> offs, cur_partition_id |-> pid]

\* lines 314-317: while cur_partition_id < min_spill.cur { push position; += 1 }
RECURSIVE AdvanceOutput(_, _, _, _)
AdvanceOutput(offs, pid, cur, position) ==
    IF pid < cur THEN AdvanceOutput(Append(offs, position), pid + 1, cur, position)
    ELSE [offsets |-> offs, cur_partition_id |-> pid]

\* faulty variant of CopyLen: the end of the range taken for its length
CopyLen_EndOnly(c, pid) == Min(Get(c.offsets, pid + 1), Len(c.data) - c.pos)

\* lines 318-328: the bytes std::io::copy moves from the cursor's reader, at
\* most spill_range.len() of them and no more than the reader has left
CopyLen(c, pid) ==
    LET spill_offset_start == Get(c.offsets, pid)
        spill_offset_end == Get(c.offsets, pid + 1)
        range_len == IF spill_offset_end > spill_offset_start
                     THEN spill_offset_end - spill_offset_start ELSE 0
    IN Min(range_len, Len(c.data) - c.pos)

\* faulty variant of ForwardCursor: the empty partitions after it not skipped
ForwardCursor_NoSkip(c, n) == [c EXCEPT !.cur = @ + 1, !.pos = @ + n]

\* faulty variant of ForwardCursor: the partition id left where it was
ForwardCursor_NoAdvance(c, n) == skip_empty_partitions([c EXCEPT !.pos = @ + n])

\* lines 330-332: forward the partition id of the cursor just copied from
ForwardCursor(c, n) ==
    skip_empty_partitions([c EXCEPT !.cur = @ + 1, !.pos = @ + n])

\* lines 314-332: the body of the merge loop for the winner cs[i], not finished
MergeBody(cs, i, pid, offs, data) ==
    LET min_spill == cs[i]
        adv == AdvanceOutput(offs, pid, min_spill.cur, Len(data))
        n == CopyLen(min_spill, adv.cur_partition_id)
    IN [cursors |-> [cs EXCEPT ![i] = ForwardCursor(min_spill, n)],
        cur_partition_id |-> adv.cur_partition_id,
        offsets |-> adv.offsets,
        output_data |-> data \o SubSeq(min_spill.data, min_spill.pos + 1,
                                       min_spill.pos + n)]

\* lines 308-333: one iteration of the merge loop
MergeStep ==
    /\ pc[Writer] = "merge"
    /\ \E i \in Winners(cursors) :
         IF finished(cursors[i])
         THEN /\ pc' = [pc EXCEPT ![Writer] = "flush"]
              /\ UNCHANGED <<sender_vars, cursors, cur_partition_id, offsets, output_data>>
         ELSE LET m == MergeBody(cursors, i, cur_partition_id, offsets,
                                 output_data)
              IN /\ cursors' = m.cursors
                 /\ cur_partition_id' = m.cur_partition_id
                 /\ offsets' = m.offsets
                 /\ output_data' = m.output_data
                 /\ pc' = pc
    /\ UNCHANGED <<sender_vars, input, shared, spillable, mem_used, w_spills, output_index,
                   inserted, spill_in_flight>>

\* faulty variant of ShuffleWriteFinish: the offsets padded with 0
ShuffleWriteFinish_PadZero ==
    /\ pc[Writer] = "flush"
    /\ offsets' = Resize(offsets, num_output_partitions + 1, 0)
    /\ output_index' = WriteIndex(offsets')
    /\ mem_used' = 0
    /\ pc' = [pc EXCEPT ![Writer] = "done"]
    /\ UNCHANGED <<sender_vars, input, shared, spillable, w_spills, cursors, cur_partition_id,
                   output_data, inserted, spill_in_flight>>

\* faulty variant of ShuffleWriteFinish: no extra offset at last
ShuffleWriteFinish_NoExtraOffset ==
    /\ pc[Writer] = "flush"
    /\ offsets' = Resize(offsets, num_output_partitions, Len(output_data))
    /\ output_index' = WriteIndex(offsets')
    /\ mem_used' = 0
    /\ pc' = [pc EXCEPT ![Writer] = "done"]
    /\ UNCHANGED <<sender_vars, input, shared, spillable, w_spills, cursors, cur_partition_id,
                   output_data, inserted, spill_in_flight>>

\* lines 335-353: flush, pad the offsets, write the index file, report usage 0
ShuffleWriteFinish ==
    /\ pc[Writer] = "flush"
    /\ offsets' = Resize(offsets, num_output_partitions + 1, Len(output_data))
    /\ output_index' = WriteIndex(offsets')
    /\ mem_used' = 0
    /\ pc' = [pc EXCEPT ![Writer] = "done"]
    /\ UNCHANGED <<sender_vars, input, shared, spillable, w_spills, cursors, cur_partition_id,
                   output_data, inserted, spill_in_flight>>

\* ---------------------------------------------------------- specification
Next ==
    \/ \E t \in Inserters : InsertBatchReport(t)
    \/ \E t \in Inserters : InsertBatchPush(t)
    \/ \E t \in Spillers : SpillCall(t)
    \/ \E t \in Spillers : SpillLockBatches(t)
    \/ \E t \in Spillers : SpillLockSpills(t)
    \/ \E t \in Spillers : SpillBuild(t)
    \/ \E t \in Spillers : SpillReport(t)
    \/ ShuffleWriteCall
    \/ ShuffleWriteTakeSpills
    \/ ShuffleWriteTakeBatches
    \/ ShuffleWriteOpen
    \/ MergeStep
    \/ ShuffleWriteFinish

Spec == Init /\ [][Next]_vars

\* ------------------------------------------------- reading the output back
Done == pc[Writer] = "done"

PartitionIds == 0 .. num_output_partitions - 1

\* the entries of the index file, as the reader of the shuffle decodes them
offsets_out ==
    [i \in 1 .. (Len(output_index) \div I64_BYTES) |->
        from_le_bytes(SubSeq(output_index, (i - 1) * I64_BYTES + 1,
                             i * I64_BYTES))]

\* the bytes of the data file between offsets_out[p] and offsets_out[p+1]
Segment(p) ==
    SubSeq(output_data, Get(offsets_out, p) + 1, Get(offsets_out, p + 1))

\* the rows decoded from the segment of partition p
SegmentRows(p) == read_rows(Segment(p))

RECURSIVE AllSegmentRows(_)
AllSegmentRows(p) ==
    IF p >= num_output_partitions THEN <<>>
    ELSE SegmentRows(p) \o AllSegmentRows(p + 1)

IndexWellFormed ==
    /\ Len(output_index) = I64_BYTES * (num_output_partitions + 1)
    /\ \A p \in PartitionIds :
         /\ Get(offsets_out, p) <= Get(offsets_out, p + 1)
         /\ Get(offsets_out, p + 1) <= Len(output_data)

PartitionOf(row) == evaluate_partition_ids(evaluate_hashes(<<row>>),
                                           num_output_partitions)[1]

\* every call of spill() had returned when shuffle_write was entered
SequentialCalls == ~spill_in_flight

\* ------------------------------------------------------------------ claims

\* C1 (row conservation): when the insert_batch and spill calls all returned
\* before the one shuffle_write was called, the rows decoded from the data
\* file, and the rows decoded from the partition segments the index delimits,
\* are as a multiset exactly the rows inserted.
C1_RowConservation ==
    (Done /\ SequentialCalls) =>
        /\ IndexWellFormed
        /\ SeqToBag(read_rows(output_data)) = inserted
        /\ SeqToBag(AllSegmentRows(0)) = inserted

\* shuffle_write returned after a run of sequential calls in which all the rows
\* were inserted and an intermediate spill was merged with the residual buffer
C1_Witness ==
    /\ Done /\ SequentialCalls
    /\ BagCardinality(inserted) = MaxTotalRows
    /\ Len(w_spills) >= 2

\* C2 (spill-vs-finalize race), as claimed: spillability is off before spills
\* and buffered_batches are read, no spill is appended to self.spills once
\* shuffle_write has taken it, and the rows of a spill in progress at entry are
\* in the merged output.
C2_SpillVsFinalize ==
    /\ (pc[Writer] # "idle" => ~spillable)
    /\ (pc[Writer] \notin {"idle", "take_spills"} => spills = <<>>)
    /\ (Done => SeqToBag(read_rows(output_data)) = inserted)

\* C3 (partition correctness): every row in the segment of partition p is a
\* well-formed row whose hash mod P is p, in every run.
C3_PartitionCorrectness ==
    Done =>
        /\ IndexWellFormed
        /\ \A p \in PartitionIds :
             \A k \in 1 .. Len(SegmentRows(p)) :
                /\ SegmentRows(p)[k] \in Hashes
                /\ PartitionOf(SegmentRows(p)[k]) = p

\* rows of two different partitions, coming from at least two merged spills
C3_Witness ==
    /\ Done
    /\ Len(w_spills) >= 2
    /\ IndexWellFormed
    /\ Cardinality({p \in PartitionIds : SegmentRows(p) # <<>>}) >= 2

\* C4 (partition order of the data file): the rows of the data file come in
\* non-decreasing order of partition id.
C4_PartitionOrder ==
    Done =>
        LET rows == read_rows(output_data)
        IN /\ \A k \in 1 .. Len(rows) : rows[k] \in Hashes
           /\ \A i, j \in 1 .. Len(rows) :
                PartitionOf(rows[i]) < PartitionOf(rows[j]) => i < j

\* two merged spills that both hold rows of one partition and, between them,
\* rows of another
C4_Witness ==
    /\ Done
    /\ Len(w_spills) >= 2
    /\ \E p \in PartitionIds :
         \A k \in 1 .. 2 :
            Get(w_spills[k].offsets, p) < Get(w_spills[k].offsets, p + 1)
    /\ Cardinality({PartitionOf(read_rows(output_data)[k]) :
                       k \in 1 .. Len(read_rows(output_data))}) >= 2

\* C5 (output offsets): the index is P+1 entries of 8 bytes, starts at 0, is
\* non-decreasing, ends at the length of the data file, and entry i is the
\* position where partition i begins: the rows before it belong to smaller
\* partitions and the rows from it on to partition i or larger ones.
C5_OutputOffsets ==
    Done =>
        /\ Len(output_index) = I64_BYTES * (num_output_partitions + 1)
        /\ Len(offsets_out) = num_output_partitions + 1
        /\ offsets_out = offsets
        /\ Get(offsets_out, 0) = 0
        /\ \A i \in PartitionIds : Get(offsets_out, i) <= Get(offsets_out, i + 1)
        /\ Get(offsets_out, num_output_partitions) = Len(output_data)
        /\ \A i \in PartitionIds :
             LET before == read_rows(SubSeq(output_data, 1, Get(offsets_out, i)))
                 from == read_rows(SubSeq(output_data, Get(offsets_out, i) + 1,
                                          Len(output_data)))
             IN /\ \A k \in 1 .. Len(before) :
                     before[k] \in Hashes /\ PartitionOf(before[k]) < i
                /\ \A k \in 1 .. Len(from) :
                     from[k] \in Hashes /\ PartitionOf(from[k]) >= i

\* a data file with rows whose last partition is empty
C5_Witness ==
    /\ Done
    /\ output_data # <<>>
    /\ Len(offsets_out) = num_output_partitions + 1
    /\ Get(offsets_out, num_output_partitions - 1) = Len(output_data)
    /\ Get(offsets_out, 1) > 0

\* ---------------------------------------- the run without intermediate spills
\* the rows of a bag, in ascending order
RECURSIVE BagToSeq(_, _)
BagToSeq(bag, h) ==
    IF h > MaxHash THEN <<>>
    ELSE [i \in 1 .. CopiesIn(h, bag) |-> h] \o BagToSeq(bag, h + 1)

\* the merge loop run to its end
RECURSIVE MergeAll(_, _, _, _)
MergeAll(cs, pid, offs, data) ==
    LET i == CHOOSE w \in Winners(cs) : TRUE
    IN IF finished(cs[i]) THEN [offsets |-> offs, output_data |-> data]
       ELSE LET m == MergeBody(cs, i, pid, offs, data)
            IN MergeAll(m.cursors, m.cur_partition_id, m.offsets, m.output_data)

\* what shuffle_write produces from a buffer that no spill() ever emptied
ZeroSpillRun(buffered) ==
    LET cs == LiveCursors(spill_buffered_batches(buffered))
        m == IF Len(cs) > 0 THEN MergeAll(cs, 0, <<0>>, <<>>)
             ELSE [offsets |-> <<0>>, output_data |-> <<>>]
        offs == Resize(m.offsets, num_output_partitions + 1, Len(m.output_data))
    IN [output_data |-> m.output_data, offsets |-> offs,
        output_index |-> WriteIndex(offs)]

\* the zero-spill output for the rows inserted; for distinct hashes it is the
\* same whatever the order the rows arrived in
ZeroSpillOutput ==
    ZeroSpillRun(IF inserted = EmptyBag THEN <<>> ELSE <<BagToSeq(inserted, 0)>>)

ZeroSpillSegmentRows(p) ==
    read_rows(SubSeq(ZeroSpillOutput.output_data,
                     Get(ZeroSpillOutput.offsets, p) + 1,
                     Get(ZeroSpillOutput.offsets, p + 1)))

DistinctHashes == \A h \in BagToSet(inserted) : CopiesIn(h, inserted) = 1

\* C6 (spill-equivalence), as claimed: with hashes distinct within each
\* partition the data file and the index file are the very bytes of the run
\* without intermediate spills.
C6_ByteIdentical ==
    (Done /\ SequentialCalls /\ DistinctHashes) =>
        /\ output_data = ZeroSpillOutput.output_data
        /\ output_index = ZeroSpillOutput.output_index

\* C6 as amended: the segment of every partition decodes to the same multiset
\* of rows as in the run without intermediate spills.
C6_SameRowsPerPartition ==
    (Done /\ SequentialCalls) =>
        /\ IndexWellFormed
        /\ \A p \in PartitionIds :
             SeqToBag(SegmentRows(p)) = SeqToBag(ZeroSpillSegmentRows(p))

\* a run with an intermediate spill whose data file differs from the zero-spill
\* one although the hashes are distinct
C6_Witness ==
    /\ Done /\ SequentialCalls /\ DistinctHashes
    /\ Len(w_spills) >= 2
    /\ output_data # ZeroSpillOutput.output_data

\* C7 (lock discipline), as claimed: no task holds both mutexes at once, and
\* the spill builder runs with neither held.
C7_LockDiscipline ==
    \A t \in Tasks :
        /\ ~(batches_lock = t /\ spills_lock = t)
        /\ (pc[t] = "build" => batches_lock # t /\ spills_lock # t)

RECURSIVE BufferedRows(_)
BufferedRows(batches) ==
    IF batches = <<>> THEN <<>> ELSE Head(batches) \o BufferedRows(Tail(batches))

\* C8 (effect of spill()): under the buffer's lock spill() takes the whole
\* buffer and leaves it empty; it appends one spill, holding the rows taken, when
\* the buffer was not empty, and leaves spills alone when it was; it then
\* reports usage 0.
C8_SpillEffect ==
    [][\A t \in Spillers :
         /\ (pc[t] = "build" /\ pc'[t] = "report") =>
              /\ batches_lock = t
              /\ buffered_batches' = <<>>
              /\ IF buffered_batches # <<>>
                 THEN /\ Len(spills') = Len(spills) + 1
                      /\ SubSeq(spills', 1, Len(spills)) = spills
                      /\ SeqToBag(read_rows(spills'[Len(spills')].spill))
                             = SeqToBag(BufferedRows(buffered_batches))
                 ELSE spills' = spills
         /\ (pc[t] = "report" /\ pc'[t] = "idle") => mem_used' = 0
      ]_vars

\* spill() has taken a non-empty buffer and appended its spill, and is about
\* to report usage 0 over a non-zero usage
C8_Witness ==
    \E t \in Spillers :
        /\ pc[t] = "report"
        /\ spills # <<>>
        /\ buffered_batches = <<>>
        /\ mem_used > 0

\* the rows the merged spills hold for partition p
SpillHasRows(sp, p) ==
    \E k \in 1 .. Len(read_rows(sp.spill)) : PartitionOf(read_rows(sp.spill)[k]) = p

\* C9 (empty partitions): a partition no merged spill holds a row of has equal
\* adjacent offsets, a partition some merged spill holds a row of has a
\* strictly larger end offset.
C9_EmptyPartitions ==
    Done =>
        /\ Len(offsets_out) = num_output_partitions + 1
        /\ \A p \in PartitionIds :
             IF \E k \in 1 .. Len(w_spills) : SpillHasRows(w_spills[k], p)
             THEN Get(offsets_out, p + 1) > Get(offsets_out, p)
             ELSE Get(offsets_out, p + 1) = Get(offsets_out, p)

\* an empty partition between two non-empty ones, the rows coming from two spills
C9_Witness ==
    /\ Done
    /\ Len(w_spills) >= 2
    /\ Len(offsets_out) = num_output_partitions + 1
    /\ \E p \in PartitionIds :
         /\ p >= 1 /\ p + 1 < num_output_partitions
         /\ Get(offsets_out, p - 1) < Get(offsets_out, p)
         /\ Get(offsets_out, p) = Get(offsets_out, p + 1)
         /\ Get(offsets_out, p + 1) < Get(offsets_out, p + 2)

\* C10 (empty input): with no insert_batch call the data file is created empty
\* and the index is P+1 offsets, all 0.
C10_EmptyInput ==
    (Done /\ inserted = EmptyBag) =>
        /\ output_data = <<>>
        /\ output_index = [i \in 1 .. I64_BYTES * (num_output_partitions + 1) |-> 0]
        /\ offsets_out = [i \in 1 .. num_output_partitions + 1 |-> 0]

\* shuffle_write returned and nothing was ever inserted
C10_Witness == Done /\ inserted = EmptyBag /\ output_data = <<>>

\* the rows of a multiset that belong to partition p
RowsOfPartition(bag, p) ==
    [h \in {x \in BagToSet(bag) : PartitionOf(x) = p} |-> CopiesIn(h, bag)]

BuiltSpill ==
    IF Len(spills') > Len(spills) THEN spills'[Len(spills')]
    ELSE w_spills'[Len(w_spills')]

\* a step of spill() or shuffle_write that ran the builder on a non-empty buffer
BuildsSpill == buffered_batches # <<>> /\ buffered_batches' = <<>>

SpillSlice(sp, i) ==
    SubSeq(sp.spill, Get(sp.offsets, i) + 1, Get(sp.offsets, i + 1))

RECURSIVE WriteBatches(_)
WriteBatches(bs) ==
    IF bs = <<>> THEN <<>> ELSE write_one_batch(Head(bs)) \o WriteBatches(Tail(bs))

\* the offsets of spill sp delimit, partition by partition, the serialized
\* sub-batches of the rows of that partition among rows
SpillOffsetsOk(sp, rows) ==
    /\ Len(sp.offsets) = num_output_partitions + 1
    /\ Get(sp.offsets, 0) = 0
    /\ \A i \in PartitionIds : Get(sp.offsets, i) <= Get(sp.offsets, i + 1)
    /\ Get(sp.offsets, num_output_partitions) = Len(sp.spill)
    /\ \A i \in PartitionIds :
         /\ WriteBatches(read_batches(SpillSlice(sp, i))) = SpillSlice(sp, i)
         /\ SeqToBag(read_rows(SpillSlice(sp, i))) = RowsOfPartition(rows, i)

\* C13 (spill offsets): every spill built from a non-empty buffer has P+1
\* offsets, from 0, non-decreasing, ending at the spill's length, and the bytes
\* between offsets i and i+1 are the serialized sub-batches of exactly the
\* buffered rows of partition i.
C13_SpillOffsets ==
    [][BuildsSpill =>
          SpillOffsetsOk(BuiltSpill, SeqToBag(BufferedRows(buffered_batches)))]_vars

\* a spill with an empty partition between two that hold rows
C13_Witness ==
    \E k \in 1 .. Len(spills) :
        /\ Len(spills[k].offsets) = num_output_partitions + 1
        /\ \E p \in PartitionIds :
             /\ p >= 1 /\ p + 1 < num_output_partitions
             /\ Get(spills[k].offsets, p - 1) < Get(spills[k].offsets, p)
             /\ Get(spills[k].offsets, p) = Get(spills[k].offsets, p + 1)
             /\ Get(spills[k].offsets, p + 1) < Get(spills[k].offsets, p + 2)

Ceil(n, d) == (n + d - 1) \div d

\* the sub-batches of spill sp are windows of at most batch_size rows of one
\* partition, as few as hold the rows of each partition
SubBatchesOk(sp, rows) ==
    LET batches == read_batches(sp.spill)
    IN /\ \A k \in 1 .. Len(batches) :
            /\ Len(batches[k]) >= 1
            /\ Len(batches[k]) <= batch_size
            /\ \A r \in 1 .. Len(batches[k]) :
                 /\ batches[k][r] \in Hashes
                 /\ PartitionOf(batches[k][r]) = PartitionOf(batches[k][1])
       /\ \A p \in PartitionIds :
            Cardinality({k \in 1 .. Len(batches) :
                            PartitionOf(batches[k][1]) = p})
                = Ceil(BagCardinality(RowsOfPartition(rows, p)), batch_size)

\* C14 (sub-batch windowing): every sub-batch the builder emits is non-empty,
\* holds rows of one partition and at most batch_size of them, and a partition
\* with n buffered rows is emitted as ceil(n / batch_size) sub-batches, a batch
\* of 7 rows of partition 0 among them.
C14_SubBatchWindowing ==
    [][BuildsSpill =>
          /\ SubBatchesOk(BuiltSpill, SeqToBag(BufferedRows(buffered_batches)))
          /\ LET seven == <<<<0, 0, 0, 0, 0, 0, 0>>>>
                 built == spill_buffered_batches(seven)[1]
             IN /\ SubBatchesOk(built, SeqToBag(BufferedRows(seven)))
                /\ Len(read_batches(built.spill)) = Ceil(7, batch_size)]_vars

\* a spill in which one partition took more than one sub-batch, the first full
C14_Witness ==
    \E k \in 1 .. Len(spills) :
        LET batches == read_batches(spills[k].spill)
        IN /\ Len(batches) >= 2
           /\ Len(batches[1]) = batch_size
           /\ PartitionOf(batches[1][1]) = PartitionOf(batches[2][1])

\* ----------------------------------------------------------- the merge loop
\* the task that runs shuffle_write is polled until it returns
FairSpec == Spec /\ WF_vars(MergeStep)

Merging == pc[Writer] = "merge"

\* C15 (tournament order): in the merge loop a cursor is finished exactly when
\* its partition id is at least P, a finished cursor is never less than another
\* and a live one is less than a finished one, of two live cursors the one with
\* the smaller partition id is the lesser, and so a peek gives a live cursor of
\* the least partition id among the live ones, or a finished cursor only when
\* every cursor is finished.
C15_TournamentOrder ==
    Merging =>
        /\ \A i \in 1 .. Len(cursors) :
             finished(cursors[i]) <=> cursors[i].cur >= num_output_partitions
        /\ \A i, j \in 1 .. Len(cursors) :
             LET c1 == cursors[i]
                 c2 == cursors[j]
             IN /\ finished(c1) => ~CursorLt(c1, c2)
                /\ (~finished(c1) /\ finished(c2)) => CursorLt(c1, c2)
                /\ (~finished(c1) /\ ~finished(c2)) =>
                       (CursorLt(c1, c2) <=> c1.cur < c2.cur)
        /\ Winners(cursors) # {}
        /\ \A w \in Winners(cursors) :
             IF \E j \in 1 .. Len(cursors) : ~finished(cursors[j])
             THEN /\ ~finished(cursors[w])
                  /\ \A j \in 1 .. Len(cursors) :
                       ~finished(cursors[j]) => cursors[w].cur <= cursors[j].cur
             ELSE finished(cursors[w])

\* the merge loop holds a finished cursor and two live ones of different
\* partition ids
C15_Witness ==
    /\ Merging
    /\ \E i, j, k \in 1 .. Len(cursors) :
         /\ finished(cursors[i])
         /\ ~finished(cursors[j]) /\ ~finished(cursors[k])
         /\ cursors[j].cur < cursors[k].cur

\* an iteration of the merge loop that copies from cursor i
CopiesFrom(i) == Merging /\ i \in 1 .. Len(cursors) /\ cursors'[i] # cursors[i]

\* C16 (exact slice copy): at every copy step of the merge loop the output
\* partition counter equals the winning cursor's partition id, the cursor's
\* reader has consumed exactly offsets[cur] bytes of its spill, and the bytes
\* appended to the data file are the spill's slice [offsets[cur],
\* offsets[cur+1]), which is not empty.
C16_ExactSliceCopy ==
    [][\A i \in 1 .. Len(cursors) : CopiesFrom(i) =>
          LET c == cursors[i]
          IN /\ cur_partition_id' = c.cur
             /\ c.pos = Get(c.offsets, c.cur)
             /\ Get(c.offsets, c.cur) < Get(c.offsets, c.cur + 1)
             /\ output_data' = output_data \o
                    SubSeq(c.data, Get(c.offsets, c.cur) + 1,
                           Get(c.offsets, c.cur + 1))]_vars

\* a cursor that has been copied from, skipped an empty partition and is still
\* to be copied from, behind bytes of another spill
C16_Witness ==
    /\ Merging
    /\ \E i \in 1 .. Len(cursors) :
         /\ ~finished(cursors[i])
         /\ cursors[i].pos > 0
         /\ cursors[i].cur >= 2
         /\ Len(output_data) > cursors[i].pos

RECURSIVE SpillBytes(_)
SpillBytes(sp) == IF sp = <<>> THEN 0 ELSE Len(Head(sp).spill) + SpillBytes(Tail(sp))

\* the sub-batches of partition p in the spills sp
RECURSIVE SlicesOf(_, _)
SlicesOf(sp, p) ==
    IF sp = <<>> THEN EmptyBag
    ELSE SeqToBag(read_batches(SpillSlice(Head(sp), p))) (+) SlicesOf(Tail(sp), p)

\* C17 (merge termination): each iteration of the merge loop strictly advances
\* the partition id of the cursor it copies from, the loop is left exactly when
\* every cursor is finished, by then every spill has been read to its end and
\* the data file holds each non-empty slice of each spill once, and the loop,
\* once entered, is left.
C17_MergeTermination ==
    /\ [][/\ \A i \in 1 .. Len(cursors) : CopiesFrom(i) =>
                /\ ~finished(cursors[i])
                /\ cursors'[i].cur > cursors[i].cur
                /\ \A j \in 1 .. Len(cursors) : j # i => cursors'[j] = cursors[j]
          /\ (Merging /\ pc'[Writer] # "merge") =>
                \A i \in 1 .. Len(cursors) : finished(cursors[i])
          /\ (Merging /\ \A i \in 1 .. Len(cursors) : finished(cursors[i])) =>
                (cursors' = cursors /\ output_data' = output_data)]_vars
    /\ [](pc[Writer] \in {"flush", "done"} =>
             /\ \A i \in 1 .. Len(cursors) :
                  finished(cursors[i]) /\ cursors[i].pos = Len(cursors[i].data)
             /\ Len(output_data) = SpillBytes(w_spills))
    /\ [](Done => \A p \in PartitionIds :
                     SeqToBag(read_batches(Segment(p))) = SlicesOf(w_spills, p))
    /\ (Merging ~> pc[Writer] = "flush")

\* the merge of two spills that both hold rows of one partition has ended
C17_Witness ==
    /\ Done
    /\ Len(w_spills) >= 2
    /\ \E p \in PartitionIds :
         /\ SpillSlice(w_spills[1], p) # <<>>
         /\ SpillSlice(w_spills[2], p) # <<>>

\* ------------------------------------------------------- memory accounting
\* what insert_batch reports for the batches of a buffer (lines 214-216)
RECURSIVE BufferedMem(_)
BufferedMem(buffered) ==
    IF buffered = <<>> THEN 0
    ELSE (Len(Head(buffered)) * ROW_MEM + Len(Head(buffered)) * SIZEOF_PI)
             + BufferedMem(Tail(buffered))

\* no call of insert_batch, spill or shuffle_write is in progress
Quiescent == \A t \in Tasks : pc[t] = "idle"

\* C18 (memory accounting): whenever no call is in progress before
\* shuffle_write, the usage last reported to the arbiter is the sum over the
\* buffered batches of their footprint plus sizeof(PI) per row, 0 for an empty
\* buffer, also when spill() ran between the report and the push of an
\* insert_batch.
C18_MemoryAccounting ==
    Quiescent => mem_used = BufferedMem(buffered_batches)

\* ---------------------------------------------------------- the two mutexes
Locks == {"buffered_batches", "spills"}

\* the mutex task t has asked for and not yet acquired, or "none"
WaitsFor(t) ==
    IF pc[t] \in {"push", "lock_batches", "take_batches"} THEN "buffered_batches"
    ELSE IF pc[t] \in {"lock_spills", "take_spills"} THEN "spills"
    ELSE "none"

OwnerOf(l) == IF l = "buffered_batches" THEN batches_lock ELSE spills_lock

\* task t waits for a mutex that is held
Blocked(t) == WaitsFor(t) # "none" /\ OwnerOf(WaitsFor(t)) # NoOwner

\* the step by which task t goes from one place of its call to the next
Leaves(t, from, to) == pc[t] = from /\ pc' = [pc EXCEPT ![t] = to]

\* the runtime polls every task that can run: spill() and shuffle_write take
\* their next step when it stays possible (the two steps that run the builder
\* are named by their change of pc), and an insert_batch acquires the buffer
\* if it comes free again and again
LockFairSpec ==
    /\ Spec
    /\ \A t \in Inserters : SF_vars(InsertBatchPush(t))
    /\ \A t \in Spillers :
         /\ WF_vars(SpillLockBatches(t))
         /\ WF_vars(SpillLockSpills(t))
         /\ WF_pc(Leaves(t, "build", "report"))
         /\ WF_vars(SpillReport(t))
    /\ WF_vars(ShuffleWriteTakeSpills)
    /\ WF_pc(batches_lock = NoOwner /\ Leaves(Writer, "take_batches", "reserve"))

CHANNEL_CAPACITY == 2
\* the frames the worker future sends at most
MaxFrames == 3

\* what a panic carries: a &str, a String, or a value of another type
PanicPayloads ==
    {[kind |-> "str", text |-> "boom"], [kind |-> "String", text |-> "oops"],
     [kind |-> "other", text |-> ""]}

\* panic_message::panic_message
panic_message(payload) ==
    IF payload.kind \in {"str", "String"} THEN payload.text ELSE "Box<dyn Any>"

\* the frames of the channel, ArrowResult<RecordBatch>
Batch == [tag |-> "Ok", error |-> "", message |-> ""]
WorkerError == [tag |-> "Err", error |-> "ComputeError", message |-> "bad"]
\* Err(ArrowError::ExternalError(Box::new(DataFusionError::Execution(err_message))))
ExternalError(err_message) ==
    [tag |-> "Err", error |-> "ExternalError(Execution)", message |-> err_message]
WorkerFrames == {Batch, WorkerError}

\* the spawned task has ended, and with it the last sender of the channel
Terminal == task \in {"returned", "panicked", "aborted"}

\* line 78: the worker future sends a frame, waiting while the channel is full
WorkerSend ==
    /\ task = "output"
    /\ receiver # "dropped"
    /\ Len(channel) < CHANNEL_CAPACITY
    /\ Len(worker_sent) < MaxFrames
    /\ \E f \in WorkerFrames :
         /\ channel' = Append(channel, f)
         /\ worker_sent' = Append(worker_sent, f)
    /\ UNCHANGED <<repartitioner_vars, task, result, receiver, received, err_sends>>

\* lines 76-81: the worker future completes, with Ok(()) or with Err(e)
WorkerReturn ==
    /\ task = "output"
    /\ \E v \in {"Ok(())", "Err(e)"} :
         result' = [tag |-> "Ok", value |-> v, payload |-> NoPayload]
    /\ task' = "caught"
    /\ UNCHANGED <<repartitioner_vars, channel, receiver, received, worker_sent,
                   err_sends>>

\* lines 76-81: the worker future panics and catch_unwind returns the payload
WorkerPanic ==
    /\ task = "output"
    /\ \E p \in PanicPayloads :
         result' = [tag |-> "Err", value |-> "", payload |-> p]
    /\ task' = "caught"
    /\ UNCHANGED <<repartitioner_vars, channel, receiver, received, worker_sent,
                   err_sends>>

\* faulty variant of TaskCheck: an Err returned by the worker reported as well
TaskCheck_ReportsErr ==
    /\ task = "caught"
    /\ task' = IF result.tag = "Err" \/ result.value = "Err(e)"
               THEN "send" ELSE "returned"
    /\ UNCHANGED <<repartitioner_vars, result, channel, receiver, received,
                   worker_sent, err_sends>>

\* line 83: if let Err(e) = result
TaskCheck ==
    /\ task = "caught"
    /\ task' = IF result.tag = "Err" THEN "send" ELSE "returned"
    /\ UNCHANGED <<repartitioner_vars, result, channel, receiver, received,
                   worker_sent, err_sends>>

\* faulty variant of ErrSend: a full channel is not waited for
ErrSend_TrySend ==
    /\ task = "send"
    /\ \/ /\ receiver = "dropped"
          /\ err_sends' = Append(err_sends, "SendError")
          /\ task' = "panicked"
          /\ UNCHANGED channel
       \/ /\ receiver # "dropped"
          /\ Len(channel) < CHANNEL_CAPACITY
          /\ channel' = Append(channel,
                               ExternalError(panic_message(result.payload)))
          /\ err_sends' = Append(err_sends, "Ok")
          /\ task' = "returned"
       \/ /\ receiver # "dropped"
          /\ Len(channel) >= CHANNEL_CAPACITY
          /\ err_sends' = Append(err_sends, "Full")
          /\ task' = "returned"
          /\ UNCHANGED channel
    /\ UNCHANGED <<repartitioner_vars, result, receiver, received, worker_sent>>

\* lines 84-90: err_sender.send(Err(..)).await.unwrap(): the send waits while
\* the channel is full, and the unwrap panics when the receiver is gone
ErrSend ==
    /\ task = "send"
    /\ \/ /\ receiver = "dropped"
          /\ err_sends' = Append(err_sends, "SendError")
          /\ task' = "panicked"
          /\ UNCHANGED channel
       \/ /\ receiver # "dropped"
          /\ Len(channel) < CHANNEL_CAPACITY
          /\ channel' = Append(channel,
                               ExternalError(panic_message(result.payload)))
          /\ err_sends' = Append(err_sends, "Ok")
          /\ task' = "returned"
    /\ UNCHANGED <<repartitioner_vars, result, receiver, received, worker_sent>>

\* lines 94-98: the stream polls the receiver and yields the next frame
Recv ==
    /\ receiver = "open"
    /\ channel # <<>>
    /\ received' = Append(received, Head(channel))
    /\ channel' = Tail(channel)
    /\ UNCHANGED <<repartitioner_vars, task, result, receiver, worker_sent,
                   err_sends>>

\* lines 94-98: every sender dropped and the channel empty, the stream ends
RecvEnd ==
    /\ receiver = "open"
    /\ channel = <<>>
    /\ Terminal
    /\ receiver' = "ended"
    /\ UNCHANGED <<repartitioner_vars, task, result, channel, received,
                   worker_sent, err_sends>>

\* lines 94-98: the consumer drops the stream, and the frames not yet read
ReceiverDrop ==
    /\ receiver = "open"
    /\ receiver' = "dropped"
    /\ channel' = <<>>
    /\ UNCHANGED <<repartitioner_vars, task, result, received, worker_sent,
                   err_sends>>

\* lines 94-98: the dropped stream aborts the task through join_handle
Abort ==
    /\ receiver = "dropped"
    /\ ~Terminal
    /\ task' = "aborted"
    /\ UNCHANGED <<repartitioner_vars, result, channel, receiver, received,
                   worker_sent, err_sends>>

SenderNext ==
    \/ WorkerSend
    \/ WorkerReturn
    \/ WorkerPanic
    \/ TaskCheck
    \/ ErrSend
    \/ Recv
    \/ RecvEnd
    \/ ReceiverDrop
    \/ Abort

\* the runtime polls the spawned task, and the consumer polls the stream while
\* it holds it; the worker future is under no obligation
SenderSpec ==
    /\ Init
    /\ [][SenderNext]_vars
    /\ WF_vars(TaskCheck)
    /\ WF_vars(ErrSend)
    /\ WF_vars(Recv)
    /\ WF_vars(RecvEnd)

Panicked == result.tag = "Err"

\* C11 (panic delivery): when the worker future panics, the task sends once and
\* never again, a receiver that reads to the end of the stream has observed the
\* worker's frames and after them exactly one frame, the external error with
\* the panic's message, the task ends, and the stream ends unless it is dropped.
C11_PanicDelivery ==
    /\ [](Len(err_sends) <= 1)
    /\ []((Panicked /\ receiver = "ended") =>
             received = worker_sent \o
                            <<ExternalError(panic_message(result.payload))>>)
    /\ (Panicked ~> Terminal)
    /\ (Panicked ~> (receiver \in {"ended", "dropped"}))

\* the error frame went into the last free place of the channel, behind a frame
\* of the worker, and the task returned
C11_Witness ==
    /\ Panicked
    /\ task = "returned"
    /\ Len(channel) = CHANNEL_CAPACITY
    /\ channel[1] \in WorkerFrames
    /\ channel[CHANNEL_CAPACITY] = ExternalError("boom")
    /\ Len(worker_sent) = MaxFrames

\* C20 (error frame only on panic): the task sends on the channel only if the
\* worker future panicked, and then once; when the worker future returns Ok or
\* Err the task sends nothing and the stream ends after the worker's frames.
C20_ErrorFrameOnlyOnPanic ==
    /\ err_sends # <<>> => Panicked
    /\ (Panicked /\ task \in {"returned", "panicked"}) => Len(err_sends) = 1
    /\ result.tag = "Ok" =>
         /\ task \in {"caught", "returned", "aborted"}
         /\ Len(received) + Len(channel) <= Len(worker_sent)
         /\ receiver = "ended" => received = worker_sent

\* the worker future sent frames and returned Err, and the stream has ended
C20_Witness ==
    /\ result.tag = "Ok" /\ result.value = "Err(e)"
    /\ receiver = "ended"
    /\ worker_sent # <<>>

====
